---- MODULE Spec2Model ----
(***************************************************************************)
(* Model of the traefik-analytics plugin (src/analytics.go): the           *)
(* ServeHTTP producers, the buffered channel dataChan, and the             *)
(* processingWorker/runWorker goroutine that drains it into PostgreSQL.    *)
(*                                                                         *)
(* The database (database/sql + lib/pq) is outside the repository; it is   *)
(* modelled by the variable sink: "up" (every call succeeds, except that a *)
(* single row may still be rejected), "down" (calls return an error) and   *)
(* "hang" (calls that touch the network do not return).                    *)
(***************************************************************************)
EXTENDS Naturals, Sequences, FiniteSets

\* ---- bounds of the model ----
NumReq == 3          \* number of ServeHTTP invocations
Cap == 2             \* capacity of dataChan in the model (make(chan, 1000) in New)
MaxFail == 2         \* failed runWorker calls explored

\* ---- program constants ----
BackoffSeconds == 5

Req == 1..NumReq
DSNs == {"", "postgres://analytics"}   \* values of config.DatabaseDSN
SinkModes == {"up", "down", "hang"}

VARIABLES
    pc,          \* pc[p]: position of ServeHTTP invocation p
    dataChan,    \* a.dataChan: buffered channel of RequestData (request ids)
    wpc,         \* position of the processingWorker goroutine
    db,          \* the *sql.DB handle of the current runWorker call
    stmt,        \* TRUE iff the prepared statement exists and is not closed
    sink,        \* state of the database as seen by database/sql calls
    execLog,     \* records passed to stmt.Exec, in call order
    rows,        \* rows inserted into request_logs, in order
    failed,      \* records whose stmt.Exec returned an error
    dropped,     \* records discarded by the default branch of the select
    acceptLog,   \* records sent on dataChan, in send order
    log,         \* number of log lines written, per message
    attempts,    \* number of sql.Open calls (runWorker invocations that got that far)
    fails,       \* number of runWorker calls that returned an error
    sleeps,      \* number of completed time.Sleep calls
    slept,       \* seconds slept in total
    afterRestore, \* records whose enqueue attempt saw the sink up after a failed attempt
    config,      \* config.DatabaseDSN as passed to New
    handler,     \* what New returned: "unset" before the call, "nil" or "analytics"
    newErr,      \* TRUE iff New returned a non-nil error
    chanCap,     \* cap(a.dataChan); 0 while the channel does not exist
    workers,     \* number of processingWorker goroutines started
    nextCalls,   \* nextCalls[p]: calls of a.next.ServeHTTP made by invocation p
    enq,         \* enq[p]: executions of the select by invocation p
    rw,          \* rw[p]: status the client of invocation p receives; 0 = none yet
    pinged,      \* TRUE iff db.Ping succeeded on the current handle
    handles      \* number of *sql.DB handles opened and not closed

vars == <<pc, dataChan, wpc, db, stmt, sink, execLog, rows, failed, dropped,
          acceptLog, log, attempts, fails, sleeps, slept, afterRestore,
          config, handler, newErr, chanCap, workers, nextCalls, enq, rw,
          pinged, handles>>

ctorVars == <<config, handler, newErr, chanCap, workers>>

prodVars == <<pc, dataChan, dropped, acceptLog, afterRestore, nextCalls, enq, rw>>
workVars == <<wpc, db, stmt, execLog, rows, failed, attempts, fails, sleeps, slept,
              pinged, handles>>

Range(s) == {s[i] : i \in 1..Len(s)}

\* the status a.next.ServeHTTP writes for request p (the downstream handler
\* is fixed; its answer depends on the request only)
Resp(p) == IF p % 2 = 1 THEN 200 ELSE 404

\* ---- New ----
\* the state before New is called, for either value of the DSN
NewInit ==
    /\ pc = [p \in Req |-> "idle"]
    /\ dataChan = <<>>
    /\ wpc = "none"
    /\ db = "none"
    /\ stmt = FALSE
    /\ sink \in SinkModes
    /\ execLog = <<>>
    /\ rows = <<>>
    /\ failed = {}
    /\ dropped = {}
    /\ acceptLog = <<>>
    /\ log = [full |-> 0, insert |-> 0, worker |-> 0]
    /\ attempts = 0
    /\ fails = 0
    /\ sleeps = 0
    /\ slept = 0
    /\ afterRestore = {}
    /\ config \in DSNs
    /\ handler = "unset"
    /\ newErr = FALSE
    /\ chanCap = 0
    /\ workers = 0
    /\ nextCalls = [p \in Req |-> 0]
    /\ enq = [p \in Req |-> 0]
    /\ rw = [p \in Req |-> 0]
    /\ pinged = FALSE
    /\ handles = 0

\* variant: New without the check of config.DatabaseDSN
NewNoCheck ==
    /\ handler = "unset"
    /\ handler' = "analytics"
    /\ newErr' = FALSE
    /\ dataChan' = <<>>
    /\ chanCap' = Cap
    /\ workers' = workers + 1
    /\ wpc' = "open"
    /\ UNCHANGED <<pc, db, stmt, sink, execLog, rows, failed, dropped, acceptLog,
                   log, attempts, fails, sleeps, slept, afterRestore, config,
                   nextCalls, enq, rw, pinged, handles>>

\* func New(ctx, next, config, name) (http.Handler, error)
New ==
    /\ handler = "unset"
    /\ IF config = ""
       THEN /\ handler' = "nil"
            /\ newErr' = TRUE
            /\ UNCHANGED <<dataChan, chanCap, workers, wpc>>
       ELSE /\ handler' = "analytics"
            /\ newErr' = FALSE
            /\ dataChan' = <<>>
            /\ chanCap' = Cap
            /\ workers' = workers + 1
            /\ wpc' = "open"
    /\ UNCHANGED <<pc, db, stmt, sink, execLog, rows, failed, dropped, acceptLog,
                   log, attempts, fails, sleeps, slept, afterRestore, config,
                   nextCalls, enq, rw, pinged, handles>>

\* the state after New has returned a handler
Init ==
    /\ pc = [p \in Req |-> "idle"]
    /\ dataChan = <<>>
    /\ wpc = "open"
    /\ db = "none"
    /\ stmt = FALSE
    /\ sink \in SinkModes
    /\ execLog = <<>>
    /\ rows = <<>>
    /\ failed = {}
    /\ dropped = {}
    /\ acceptLog = <<>>
    /\ log = [full |-> 0, insert |-> 0, worker |-> 0]
    /\ attempts = 0
    /\ fails = 0
    /\ sleeps = 0
    /\ slept = 0
    /\ afterRestore = {}
    /\ config = "postgres://analytics"
    /\ handler = "analytics"
    /\ newErr = FALSE
    /\ chanCap = Cap
    /\ workers = 1
    /\ nextCalls = [p \in Req |-> 0]
    /\ enq = [p \in Req |-> 0]
    /\ rw = [p \in Req |-> 0]
    /\ pinged = FALSE
    /\ handles = 0

\* ---- ServeHTTP ----
\* variant: the downstream handler is not called
ServeHTTPCallSkip(p) ==
    /\ handler = "analytics"
    /\ pc[p] = "idle"
    /\ pc' = [pc EXCEPT ![p] = "select"]
    /\ UNCHANGED <<dataChan, dropped, acceptLog, afterRestore, log, sink>>
    /\ UNCHANGED <<nextCalls, enq, rw>>
    /\ UNCHANGED workVars
    /\ UNCHANGED ctorVars

\* start := time.Now(); a.next.ServeHTTP(rw, req) is entered
ServeHTTPCall(p) ==
    /\ handler = "analytics"
    /\ pc[p] = "idle"
    /\ pc' = [pc EXCEPT ![p] = "next"]
    /\ nextCalls' = [nextCalls EXCEPT ![p] = @ + 1]
    /\ UNCHANGED <<enq, rw>>
    /\ UNCHANGED <<dataChan, dropped, acceptLog, afterRestore, log, sink>>
    /\ UNCHANGED workVars
    /\ UNCHANGED ctorVars

\* the downstream handler returns; data := RequestData{...} is built
NextReturn(p) ==
    /\ pc[p] = "next"
    /\ pc' = [pc EXCEPT ![p] = "select"]
    /\ rw' = [rw EXCEPT ![p] = Resp(p)]
    /\ UNCHANGED <<nextCalls, enq>>
    /\ UNCHANGED <<dataChan, dropped, acceptLog, afterRestore, log, sink>>
    /\ UNCHANGED workVars
    /\ UNCHANGED ctorVars

\* variant: the send succeeds while the buffer holds Cap records (<= for <)
ChanSendOffByOne(p) ==
    /\ Len(dataChan) < chanCap + 1
    /\ dataChan' = Append(dataChan, p)
    /\ acceptLog' = Append(acceptLog, p)
    /\ UNCHANGED <<dropped, log>>

\* variant: the send ignores the capacity of the buffer
ChanSendUnbounded(p) ==
    /\ dataChan' = Append(dataChan, p)
    /\ acceptLog' = Append(acceptLog, p)
    /\ UNCHANGED <<dropped, log>>

\* case a.dataChan <- data:
ChanSend(p) ==
    /\ Len(dataChan) < chanCap
    /\ dataChan' = Append(dataChan, p)
    /\ acceptLog' = Append(acceptLog, p)
    /\ UNCHANGED <<dropped, log>>

\* variant: the default branch discards without the log line
SelectDefaultSilent(p) ==
    /\ Len(dataChan) >= chanCap
    /\ dropped' = dropped \cup {p}
    /\ UNCHANGED <<dataChan, acceptLog, log>>

\* variant: the default branch is taken one slot early
SelectDefaultEager(p) ==
    /\ Len(dataChan) + 1 >= chanCap
    /\ dropped' = dropped \cup {p}
    /\ log' = [log EXCEPT !.full = @ + 1]
    /\ UNCHANGED <<dataChan, acceptLog>>

\* default: log.Println("Analytics channel full, discarding data")
SelectDefault(p) ==
    /\ Len(dataChan) >= chanCap
    /\ dropped' = dropped \cup {p}
    /\ log' = [log EXCEPT !.full = @ + 1]
    /\ UNCHANGED <<dataChan, acceptLog>>

\* variant: a plain blocking send, a.dataChan <- data, without the select
ServeHTTPSelectBlocking(p) ==
    /\ pc[p] = "select"
    /\ ChanSend(p)
    /\ pc' = [pc EXCEPT ![p] = "done"]
    /\ enq' = [enq EXCEPT ![p] = @ + 1]
    /\ UNCHANGED <<nextCalls, rw>>
    /\ afterRestore' = IF sink = "up" /\ fails > 0 THEN afterRestore \cup {p}
                       ELSE afterRestore
    /\ UNCHANGED sink
    /\ UNCHANGED workVars
    /\ UNCHANGED ctorVars

\* variant: a full channel is reported to the client as 503
ServeHTTPSelectRespond(p) ==
    /\ pc[p] = "select"
    /\ (ChanSend(p) \/ SelectDefault(p))
    /\ pc' = [pc EXCEPT ![p] = "done"]
    /\ enq' = [enq EXCEPT ![p] = @ + 1]
    /\ rw' = [rw EXCEPT ![p] = IF Len(dataChan) >= chanCap THEN 503 ELSE @]
    /\ UNCHANGED nextCalls
    /\ afterRestore' = IF sink = "up" /\ fails > 0 THEN afterRestore \cup {p}
                       ELSE afterRestore
    /\ UNCHANGED sink
    /\ UNCHANGED workVars
    /\ UNCHANGED ctorVars

\* select { case a.dataChan <- data: ... default: ... }
ServeHTTPSelect(p) ==
    /\ pc[p] = "select"
    /\ (ChanSend(p) \/ SelectDefault(p))
    /\ pc' = [pc EXCEPT ![p] = "done"]
    /\ enq' = [enq EXCEPT ![p] = @ + 1]
    /\ UNCHANGED <<nextCalls, rw>>
    /\ afterRestore' = IF sink = "up" /\ fails > 0 THEN afterRestore \cup {p}
                       ELSE afterRestore
    /\ UNCHANGED sink
    /\ UNCHANGED workVars
    /\ UNCHANGED ctorVars

ServeHTTP(p) == ServeHTTPCall(p) \/ NextReturn(p) \/ ServeHTTPSelect(p)

\* ---- processingWorker / runWorker ----
Connecting == wpc \in {"open", "ping", "prepare"}
Draining == wpc \in {"range", "exec"}
Backoff == wpc = "sleep"

\* variant: processingWorker retries at once, without time.Sleep
ReturnErrNoSleep ==
    /\ fails < MaxFail
    /\ fails' = fails + 1
    /\ db' = IF db = "open" THEN "closed" ELSE db
    /\ handles' = IF db = "open" THEN handles - 1 ELSE handles
    /\ stmt' = FALSE
    /\ pinged' = FALSE
    /\ log' = [log EXCEPT !.worker = @ + 1]
    /\ wpc' = "open"

\* variant: the error path misses db.Close
ReturnErrLeak ==
    /\ fails < MaxFail
    /\ fails' = fails + 1
    /\ UNCHANGED <<db, handles>>
    /\ stmt' = FALSE
    /\ pinged' = FALSE
    /\ log' = [log EXCEPT !.worker = @ + 1]
    /\ wpc' = "sleep"

\* variant: a connection error ends the worker goroutine (log.Fatal style)
ReturnErrFatal ==
    /\ fails < MaxFail
    /\ fails' = fails + 1
    /\ db' = IF db = "open" THEN "closed" ELSE db
    /\ handles' = IF db = "open" THEN handles - 1 ELSE handles
    /\ stmt' = FALSE
    /\ pinged' = FALSE
    /\ log' = [log EXCEPT !.worker = @ + 1]
    /\ wpc' = "exit"

\* runWorker returns an error: deferred stmt.Close and db.Close run, then
\* processingWorker logs "Worker encountered an error" and calls time.Sleep
ReturnErr ==
    /\ fails < MaxFail
    /\ fails' = fails + 1
    /\ db' = IF db = "open" THEN "closed" ELSE db
    /\ handles' = IF db = "open" THEN handles - 1 ELSE handles
    /\ stmt' = FALSE
    /\ pinged' = FALSE
    /\ log' = [log EXCEPT !.worker = @ + 1]
    /\ wpc' = "sleep"

\* db, err := sql.Open("postgres", dsn)
\* sql.Open does not wait on the network, so it returns even when the
\* database hangs; with the database down it may fail or succeed lazily.
SqlOpen ==
    /\ wpc = "open"
    /\ attempts' = attempts + 1
    /\ \/ /\ sink # "down"
          /\ db' = "open"
          /\ handles' = handles + 1
          /\ wpc' = "ping"
          /\ UNCHANGED <<stmt, fails, log, pinged>>
       \/ /\ sink = "down"
          /\ \/ /\ db' = "open"
                /\ handles' = handles + 1
                /\ wpc' = "ping"
                /\ UNCHANGED <<stmt, fails, log, pinged>>
             \/ ReturnErr
    /\ UNCHANGED <<execLog, rows, failed, sleeps, slept, sink>>
    /\ UNCHANGED prodVars
    /\ UNCHANGED ctorVars

\* err = db.Ping()
DbPing ==
    /\ wpc = "ping"
    /\ \/ /\ sink = "up"
          /\ wpc' = "prepare"
          /\ pinged' = TRUE
          /\ UNCHANGED <<db, stmt, fails, log, handles>>
       \/ /\ sink = "down"
          /\ ReturnErr
    /\ UNCHANGED <<execLog, rows, failed, attempts, sleeps, slept, sink>>
    /\ UNCHANGED prodVars
    /\ UNCHANGED ctorVars

\* stmt, err := db.Prepare(`INSERT INTO request_logs ...`)
DbPrepare ==
    /\ wpc = "prepare"
    /\ \/ /\ sink = "up"
          /\ stmt' = TRUE
          /\ wpc' = "range"
          /\ UNCHANGED <<db, fails, log, pinged, handles>>
       \/ /\ sink = "down"
          /\ ReturnErr
    /\ UNCHANGED <<execLog, rows, failed, attempts, sleeps, slept, sink>>
    /\ UNCHANGED prodVars
    /\ UNCHANGED ctorVars

\* variant: the receive leaves the element in the buffer
ReceivePeek(q) == q

\* the buffer after the receive of "for data := range a.dataChan"
Receive(q) == Tail(q)

\* variant: the receive yields the newest element
ReceivedLast(q) == q[Len(q)]

\* the element the receive yields
Received(q) == Head(q)

\* for data := range a.dataChan { _, err := stmt.Exec(data...)   (the call)
RangeRecv ==
    /\ wpc = "range"
    /\ dataChan # <<>>
    /\ execLog' = Append(execLog, Received(dataChan))
    /\ dataChan' = Receive(dataChan)
    /\ wpc' = "exec"
    /\ UNCHANGED <<db, stmt, rows, failed, attempts, fails, sleeps, slept, sink, log>>
    /\ UNCHANGED <<pinged, handles>>
    /\ UNCHANGED <<pc, dropped, acceptLog, afterRestore, nextCalls, enq, rw>>
    /\ UNCHANGED ctorVars

\* variant: an Exec error ends runWorker (return err) instead of being skipped
ExecErrReturn ==
    /\ failed' = failed \cup {execLog[Len(execLog)]}
    /\ ReturnErr
    /\ UNCHANGED rows

\* if err != nil { log.Printf("Failed to insert data: %v", err) }
ExecErr ==
    /\ failed' = failed \cup {execLog[Len(execLog)]}
    /\ log' = [log EXCEPT !.insert = @ + 1]
    /\ wpc' = "range"
    /\ UNCHANGED <<rows, db, stmt, fails, pinged, handles>>

\* variant: a record whose Exec failed is sent back to the channel
ExecReturnRetry ==
    /\ wpc = "exec"
    /\ \/ /\ sink = "up"
          /\ rows' = Append(rows, execLog[Len(execLog)])
          /\ wpc' = "range"
          /\ UNCHANGED <<failed, log, db, stmt, fails, pinged, handles, dataChan>>
       \/ /\ sink # "hang"
          /\ ExecErr
          /\ dataChan' = IF Len(dataChan) < chanCap
                          THEN Append(dataChan, execLog[Len(execLog)])
                          ELSE dataChan
    /\ UNCHANGED <<execLog, attempts, sleeps, slept, sink>>
    /\ UNCHANGED <<pc, dropped, acceptLog, afterRestore, nextCalls, enq, rw>>
    /\ UNCHANGED ctorVars

\* stmt.Exec returns: with the database up the row is inserted or rejected
\* (a row-level error); with it down the call returns a connection error;
\* while it hangs the call does not return.
ExecReturn ==
    /\ wpc = "exec"
    /\ \/ /\ sink = "up"
          /\ rows' = Append(rows, execLog[Len(execLog)])
          /\ wpc' = "range"
          /\ UNCHANGED <<failed, log, db, stmt, fails, pinged, handles>>
       \/ /\ sink # "hang"
          /\ ExecErr
    /\ UNCHANGED <<execLog, attempts, sleeps, slept, sink>>
    /\ UNCHANGED prodVars
    /\ UNCHANGED ctorVars

\* variant: processingWorker leaves its loop after the sleep
SleepDoneExit ==
    /\ wpc = "sleep"
    /\ wpc' = "exit"
    /\ sleeps' = sleeps + 1
    /\ slept' = slept + BackoffSeconds
    /\ UNCHANGED <<db, stmt, execLog, rows, failed, attempts, fails, sink, log>>
    /\ UNCHANGED <<pinged, handles>>
    /\ UNCHANGED prodVars
    /\ UNCHANGED ctorVars

\* variant: the worker empties the channel when it wakes up to reconnect
SleepDoneFlush ==
    /\ wpc = "sleep"
    /\ wpc' = "open"
    /\ sleeps' = sleeps + 1
    /\ slept' = slept + BackoffSeconds
    /\ dataChan' = <<>>
    /\ UNCHANGED <<db, stmt, execLog, rows, failed, attempts, fails, sink, log>>
    /\ UNCHANGED <<pinged, handles>>
    /\ UNCHANGED <<pc, dropped, acceptLog, afterRestore, nextCalls, enq, rw>>
    /\ UNCHANGED ctorVars

\* time.Sleep(5 * time.Second) returns
SleepDone ==
    /\ wpc = "sleep"
    /\ wpc' = "open"
    /\ sleeps' = sleeps + 1
    /\ slept' = slept + BackoffSeconds
    /\ UNCHANGED <<db, stmt, execLog, rows, failed, attempts, fails, sink, log>>
    /\ UNCHANGED <<pinged, handles>>
    /\ UNCHANGED prodVars
    /\ UNCHANGED ctorVars

processingWorker ==
    SqlOpen \/ DbPing \/ DbPrepare \/ RangeRecv \/ ExecReturn \/ SleepDone

\* ---- the database ----
SinkChange ==
    /\ sink' \in SinkModes \ {sink}
    /\ UNCHANGED <<log>>
    /\ UNCHANGED prodVars
    /\ UNCHANGED workVars
    /\ UNCHANGED ctorVars

Next ==
    \/ \E p \in Req : ServeHTTP(p)
    \/ processingWorker
    \/ SinkChange

Spec == Init /\ [][Next]_vars

\* the Go scheduler runs the worker goroutine whenever it can take a step
FairSpec == Spec /\ WF_vars(processingWorker)

\* the plugin from before the call of New
NewNext == New \/ Next
NewSpec == NewInit /\ [][NewNext]_vars

TypeOK ==
    /\ pc \in [Req -> {"idle", "next", "select", "done"}]
    /\ wpc \in {"open", "ping", "prepare", "range", "exec", "sleep"}
    /\ db \in {"none", "open", "closed"}
    /\ stmt \in BOOLEAN
    /\ sink \in SinkModes
    /\ Len(dataChan) <= Cap

\* ---- helpers for the properties ----
Done == {p \in Req : pc[p] = "done"}
Max0(a, b) == IF a > b THEN a - b ELSE 0
NoDup(s) == \A i, j \in 1..Len(s) : s[i] = s[j] => i = j
IsPrefix(s, t) == Len(s) <= Len(t) /\ \A i \in 1..Len(s) : s[i] = t[i]
\* the step in which invocation p makes its enqueue attempt and returns
EnqueueStep(p) == pc[p] = "select" /\ pc'[p] = "done"

\* C1: an invocation whose downstream handler has returned can always take
\* its enqueue step, whatever the channel holds and whatever the worker and
\* the database are doing.
C1_EnqueueNeverBlocks ==
    \A p \in Req : pc[p] = "select" => ENABLED ServeHTTPSelect(p)

\* an invocation is at its select while the channel is full and the worker
\* is inside a database call that does not return
C1_Witness ==
    \E p \in Req : /\ pc[p] = "select"
                   /\ Len(dataChan) = Cap
                   /\ wpc \in {"ping", "prepare", "exec"}
                   /\ sink = "hang"

\* C2: an enqueue attempt on a channel holding fewer than Cap records appends
\* the record at the tail and logs nothing; on a channel holding Cap records
\* it leaves the channel unchanged, discards the record and logs "channel
\* full" exactly once. A record is dropped only when the channel holds Cap.
C2_EnqueuePolicy ==
    [][\A p \in Req : EnqueueStep(p) =>
          /\ Len(dataChan) < Cap =>
                /\ dataChan' = Append(dataChan, p)
                /\ log' = log
                /\ dropped' = dropped
          /\ Len(dataChan) = Cap =>
                /\ dataChan' = dataChan
                /\ dropped' = dropped \cup {p}
                /\ p \notin dropped
                /\ log' = [log EXCEPT !.full = log.full + 1]
          /\ p \in dropped' => Len(dataChan) = Cap]_vars

\* one record was dropped on a full channel and the channel still holds Cap
C2_Witness ==
    /\ dropped # {}
    /\ Len(dataChan) = Cap
    /\ log.full = Cardinality(dropped)

\* C3 as stated: once N attempts have completed and no invocation is in
\* flight, N <= Cap means none dropped, and N > Cap means exactly Cap were
\* retained and N - Cap dropped, one log line per drop.
C3_Original ==
    (\A p \in Req : pc[p] \in {"idle", "done"}) =>
        LET n == Cardinality(Done) IN
        /\ n <= Cap => dropped = {} /\ Len(acceptLog) = n
        /\ n > Cap => Cardinality(dropped) = n - Cap /\ Len(acceptLog) = Cap
        /\ log.full = Cardinality(dropped)

\* C3 amended: after n completed attempts, n <= Cap means all n accepted and
\* none dropped; n > Cap means at least Cap accepted and at most n - Cap
\* dropped, exactly n - Cap if and only if the worker received nothing
\* before the last attempt; one "channel full" line per drop; every accepted
\* record is in the channel or has been received by the worker, and under
\* fair scheduling of the worker, once the database stays reachable, every
\* accepted record is eventually received by the worker.
C3_Accounting ==
    /\ [](LET n == Cardinality(Done) IN
          /\ Len(acceptLog) + Cardinality(dropped) = n
          /\ n <= Cap => dropped = {} /\ Len(acceptLog) = n
          /\ n > Cap => Cardinality(dropped) <= n - Cap /\ Len(acceptLog) >= Cap
          /\ execLog = <<>> => Cardinality(dropped) = Max0(n, Cap)
          /\ log.full = Cardinality(dropped)
          /\ Range(acceptLog) = Range(dataChan) \cup Range(execLog))
    /\ [][\A p \in Req :
            (EnqueueStep(p) /\ execLog # <<>> /\ Cardinality(Done') > Cap) =>
                Cardinality(dropped') < Cardinality(Done') - Cap]_vars
    /\ (<>[](sink = "up")) =>
          \A r \in Req : (r \in Range(acceptLog)) ~> (r \in Range(execLog))

\* all invocations are done, more than Cap of them, and the worker received
\* one record in between, so fewer than N - Cap were dropped
C3_Witness ==
    /\ \A p \in Req : pc[p] = "done"
    /\ NumReq > Cap
    /\ Cardinality(dropped) < NumReq - Cap
    /\ execLog # <<>>

\* C4: the sequence of stmt.Exec calls is the sequence of successful sends:
\* the calls made so far, followed by the channel's contents, are exactly the
\* accepted records in acceptance order.
C4_Fifo ==
    /\ IsPrefix(execLog, acceptLog)
    /\ acceptLog = execLog \o dataChan

\* two records were written in order after the worker had to reconnect
C4_Witness ==
    /\ Len(execLog) >= 2
    /\ fails >= 1
    /\ Len(rows) >= 1

\* C5: no record is passed to stmt.Exec more than once and none appears in
\* the sink more than once.
C5_AtMostOnce ==
    /\ NoDup(execLog)
    /\ NoDup(rows)
    /\ Range(rows) \subseteq Range(execLog)
    /\ Range(rows) \cap failed = {}

\* after a reconnect, one record failed to insert and a later one was written
C5_Witness ==
    /\ fails >= 1
    /\ failed # {}
    /\ rows # <<>>
    /\ Len(execLog) >= 2

\* the step in which stmt.Exec returns an error for the record in hand
ExecFailStep == wpc = "exec" /\ failed' # failed

\* C6: a failed stmt.Exec while Draining is logged once, the record is not
\* re-enqueued or re-attempted, the worker stays in Draining with the same
\* connection and prepared statement, and it goes on to the next receive.
C6_RowFailureSkipped ==
    /\ [][ExecFailStep =>
            LET r == execLog[Len(execLog)] IN
            /\ failed' = failed \cup {r}
            /\ log' = [log EXCEPT !.insert = log.insert + 1]
            /\ dataChan' = dataChan
            /\ r \notin Range(dataChan')
            /\ execLog' = execLog
            /\ rows' = rows
            /\ wpc' = "range"
            /\ db = "open" /\ db' = db
            /\ stmt /\ stmt'
            /\ attempts' = attempts
            /\ fails' = fails]_vars
    /\ [](wpc = "range" /\ dataChan # <<>> => ENABLED RangeRecv)

\* a record failed to insert and a record received after it was written
C6_Witness ==
    \E i, j \in 1..Len(execLog) :
        /\ i < j
        /\ execLog[i] \in failed
        /\ execLog[j] \in Range(rows)
        /\ log.insert >= 1

\* C7 as stated: when stmt.Exec returns while the database is unreachable (a
\* connectivity failure), the worker closes the connector and goes to Backoff.
C7_ConnLossReconnects ==
    [][(wpc = "exec" /\ sink = "down" /\ wpc' # wpc) =>
          (wpc' = "sleep" /\ db' = "closed" /\ ~stmt')]_vars

\* C8: every failed connection attempt is logged once and followed by one
\* sleep of BackoffSeconds before the next attempt; after K failures the
\* worker has made K attempts, slept K times and can still take its next step.
C8_RetryDiscipline ==
    /\ log.worker = fails
    /\ fails = sleeps + (IF wpc = "sleep" THEN 1 ELSE 0)
    /\ attempts = sleeps + (IF wpc = "open" THEN 0 ELSE 1)
    /\ slept = BackoffSeconds * sleeps
    /\ Connecting \/ Draining \/ Backoff
    /\ wpc = "sleep" => ENABLED SleepDone
    /\ wpc = "open" => ENABLED SqlOpen
    /\ Backoff => db # "open" /\ ~stmt

\* after two consecutive failures and two sleeps the worker is about to make
\* its third attempt
C8_Witness ==
    /\ fails >= 2
    /\ sleeps = fails
    /\ attempts = fails
    /\ wpc = "open"
    /\ execLog = <<>>

\* C9: under weak fairness of the worker, if from some point on the database
\* is reachable, the worker eventually reaches Draining and every record
\* accepted into the channel is eventually passed to stmt.Exec.
C9_EventualRecovery ==
    (<>[](sink = "up")) =>
        /\ <>Draining
        /\ \A r \in Req : (r \in Range(acceptLog)) ~> (r \in Range(execLog))

\* after a failed attempt the database is reachable, the worker is Draining
\* and a record has been passed to stmt.Exec
C9_Witness ==
    /\ fails >= 1
    /\ sink = "up"
    /\ Draining
    /\ execLog # <<>>
    /\ rows # <<>>

\* C10 as stated: a record whose enqueue attempt happens after connectivity
\* is restored following failed connection attempts is never dropped and
\* never fails to be written.
C10_Original ==
    \A r \in afterRestore : r \notin dropped /\ r \notin failed

\* C10 amended: an enqueue attempt made after connectivity is restored is
\* accepted exactly when the channel holds fewer than Cap records and dropped,
\* with one "channel full" log line, exactly when it holds Cap; an accepted
\* record is in the channel or has been passed to stmt.Exec once, and once
\* the database stays reachable it is eventually passed to stmt.Exec and
\* leaves it written or logged as failed.
C10_AfterRestore ==
    /\ [][\A p \in Req : (EnqueueStep(p) /\ sink = "up" /\ fails > 0) =>
            /\ p \in afterRestore'
            /\ Len(dataChan) < Cap <=> dataChan' = Append(dataChan, p)
            /\ Len(dataChan) = Cap <=> p \in dropped'
            /\ p \in dropped' => log' = [log EXCEPT !.full = log.full + 1]
            /\ p \notin dropped' => log' = log]_vars
    /\ [](\A r \in afterRestore \ dropped :
            /\ Cardinality({i \in 1..Len(dataChan) : dataChan[i] = r})
               + Cardinality({i \in 1..Len(execLog) : execLog[i] = r}) = 1
            /\ ~(r \in Range(rows) /\ r \in failed))
    /\ (<>[](sink = "up")) =>
          \A r \in Req : (r \in afterRestore \ dropped) ~>
                             (r \in Range(rows) \cup failed)

\* after a failed attempt and the restoration, one record attempted after
\* the restoration was dropped on a full channel and another was written
C10_Witness ==
    /\ fails >= 1
    /\ afterRestore \cap dropped # {}
    /\ afterRestore \cap Range(rows) # {}

\* C11 as stated: while the database is unreachable the worker removes no
\* record from the channel and discards none; the channel changes only by
\* producers appending.
C11_BufferedDuringOutage ==
    [][sink = "down" => (IsPrefix(dataChan, dataChan') /\ failed' = failed)]_vars

\* the step in which New returns
NewStep == handler = "unset" /\ handler' # "unset"

\* C12: New with an empty DatabaseDSN returns an error and no handler and
\* changes nothing else: no channel, no worker. New with a non-empty DSN
\* returns a handler with an empty channel of the configured capacity (Cap
\* stands for 1000) and starts exactly one worker, in Connecting.
C12_New ==
    /\ [][NewStep =>
            IF config = ""
            THEN /\ handler' = "nil" /\ newErr'
                 /\ chanCap' = 0 /\ workers' = 0 /\ wpc' = "none"
                 /\ UNCHANGED <<pc, dataChan, db, stmt, sink, execLog, rows,
                                failed, dropped, acceptLog, log, attempts,
                                fails, sleeps, slept, afterRestore, config,
                                nextCalls, enq, rw, pinged, handles>>
            ELSE /\ handler' = "analytics" /\ ~newErr'
                 /\ dataChan' = <<>> /\ chanCap' = Cap
                 /\ workers' = 1 /\ wpc' = "open"]_vars
    /\ [](handler = "nil" => /\ workers = 0 /\ chanCap = 0 /\ wpc = "none"
                             /\ \A p \in Req : pc[p] = "idle")
    /\ [](handler = "analytics" => workers = 1 /\ chanCap = Cap /\ ~newErr)

\* New has refused to start on an empty DSN
C12_Witness ==
    /\ config = ""
    /\ handler = "nil"
    /\ newErr
    /\ workers = 0

\* C13: every invocation calls the downstream handler exactly once, before
\* the record is built and offered; it executes the select at most once and
\* only after the downstream call has returned.
C13_CallThenEnqueue ==
    \A p \in Req :
        /\ pc[p] = "idle" => nextCalls[p] = 0 /\ enq[p] = 0 /\ rw[p] = 0
        /\ pc[p] = "next" => nextCalls[p] = 1 /\ enq[p] = 0 /\ rw[p] = 0
        /\ pc[p] = "select" => nextCalls[p] = 1 /\ enq[p] = 0 /\ rw[p] # 0
        /\ pc[p] = "done" => nextCalls[p] = 1 /\ enq[p] = 1 /\ rw[p] # 0
        /\ (p \in Range(acceptLog) \cup dropped) <=> enq[p] = 1
        /\ ~(p \in Range(acceptLog) /\ p \in dropped)

\* one invocation is inside the downstream handler, one is at its select and
\* one has returned
C13_Witness ==
    \E p, q, r \in Req : pc[p] = "next" /\ pc[q] = "select" /\ pc[r] = "done"
                         /\ nextCalls[r] = 1 /\ enq[r] = 1

\* C14: the response of an invocation is the downstream handler's response
\* to that request, whatever the database, the worker and the channel do, so
\* two runs that differ only there give the same responses; an invocation at
\* its select can always complete; no step of ServeHTTP touches the database
\* or the worker's state, and its only effects are the downstream call, one
\* execution of the select and at most one "channel full" log line.
C14_NonInterference ==
    /\ [](\A p \in Req : pc[p] \in {"select", "done"} => rw[p] = Resp(p))
    /\ [](\A p \in Req : pc[p] = "select" => ENABLED ServeHTTPSelect(p))
    /\ [][\A p \in Req : pc'[p] # pc[p] =>
            /\ UNCHANGED <<sink, wpc, db, stmt, execLog, rows, failed,
                           attempts, fails, sleeps, slept>>
            /\ log'.insert = log.insert /\ log'.worker = log.worker
            /\ \/ log'.full = log.full
               \/ EnqueueStep(p) /\ log'.full = log.full + 1
            /\ ~EnqueueStep(p) => dataChan' = dataChan /\ enq' = enq
            /\ EnqueueStep(p) => enq' = [enq EXCEPT ![p] = 1]]_vars

\* one invocation was answered while its record was dropped, another while
\* its record failed to insert, and the database now hangs
C14_Witness ==
    \E p, q \in Req :
        /\ p \in dropped /\ pc[p] = "done" /\ rw[p] = Resp(p)
        /\ q \in failed /\ pc[q] = "done" /\ rw[q] = Resp(q)
        /\ sink = "hang"

\* the worker is blocked in the receive on an empty channel
WaitRecv == wpc = "range" /\ dataChan = <<>>
\* the worker is inside a database call that the database does not answer
WaitSink == sink = "hang" /\ wpc \in {"ping", "prepare", "exec"}

\* C15 as stated: the worker is always in exactly one of Connecting, Draining
\* and Backoff, and unless it is blocked in the receive on an empty channel
\* (the Backoff sleep ends by itself) it can take its next step.
C15_Original ==
    /\ Connecting \/ Draining \/ Backoff
    /\ fails < MaxFail => (WaitRecv \/ ENABLED processingWorker)

\* C15 amended: the worker is always in exactly one of Connecting, Draining
\* and Backoff and has no terminal state; it can take its next step unless it
\* is blocked in the receive on an empty channel or inside a database call
\* (Ping, Prepare, Exec) that the database does not answer; the sleep always
\* ends, and the receive is enabled as soon as the channel is non-empty.
C15_NoTerminalState ==
    /\ Connecting \/ Draining \/ Backoff
    /\ ~(Connecting /\ Draining) /\ ~(Connecting /\ Backoff) /\ ~(Draining /\ Backoff)
    /\ fails < MaxFail => (WaitRecv \/ WaitSink \/ ENABLED processingWorker)
    /\ Backoff => ENABLED SleepDone
    /\ (wpc = "range" /\ dataChan # <<>>) => ENABLED RangeRecv
    /\ (sink = "up" /\ ~WaitRecv) => ENABLED processingWorker

\* the worker is inside stmt.Exec, the database hangs, records are waiting
\* and the worker has no enabled step
C15_Witness ==
    /\ wpc = "exec"
    /\ sink = "hang"
    /\ dataChan # <<>>
    /\ fails >= 1
    /\ ~ENABLED processingWorker

\* C16: the channel always holds between 0 and C records, C is the capacity
\* fixed by New (Cap stands for 1000), and no step changes it.
C16_Capacity ==
    /\ [](Len(dataChan) <= chanCap /\ chanCap = Cap)
    /\ [][chanCap' = chanCap]_vars
    /\ [][Len(dataChan') <= Len(dataChan) + 1]_vars

\* the channel is full after a reconnect, and a record has been dropped
C16_Witness ==
    /\ Len(dataChan) = chanCap
    /\ chanCap = Cap
    /\ dropped # {}
    /\ fails >= 1

\* number of the places a record is in
Ind(b) == IF b THEN 1 ELSE 0
Occ(s, x) == Cardinality({i \in 1..Len(s) : s[i] = x})
InWrite(p) == wpc = "exec" /\ execLog[Len(execLog)] = p
Places(p) ==
    Occ(dataChan, p) + Ind(InWrite(p)) + Occ(rows, p)
        + Ind(p \in failed) + Ind(p \in dropped)

\* C17: a record whose enqueue attempt has completed is in exactly one place:
\* in the channel, in the worker's current write, written, write-failed or
\* dropped; there is one "failed to insert" line per failed record and one
\* "channel full" line per dropped one; a dropped or failed record never
\* comes back into the channel or the sink.
C17_Conservation ==
    /\ [](\A p \in Req : Places(p) = enq[p])
    /\ [](log.insert = Cardinality(failed) /\ log.full = Cardinality(dropped))
    /\ [][/\ dropped \subseteq dropped'
          /\ failed \subseteq failed'
          /\ \A p \in dropped \cup failed :
                p \notin Range(dataChan') /\ p \notin Range(rows')]_vars

\* one record of each fate: written, failed, dropped
C17_Witness ==
    /\ rows # <<>>
    /\ failed # {}
    /\ dropped # {}
    /\ \A p \in Req : pc[p] = "done"

\* C18: a record leaves the channel only in the worker's receive, made while
\* Draining with an open, pinged handle and a prepared statement, and it is
\* passed to stmt.Exec in that step; in Connecting and Backoff the channel
\* only grows at the tail; every received record has had exactly one Exec
\* call, which has returned before the next receive.
C18_DequeueOnlyDraining ==
    /\ [][~IsPrefix(dataChan, dataChan') =>
            /\ wpc = "range" /\ wpc' = "exec"
            /\ db = "open" /\ pinged /\ stmt
            /\ dataChan' = Tail(dataChan)
            /\ execLog' = Append(execLog, Head(dataChan))]_vars
    /\ [][(Connecting \/ Backoff) => IsPrefix(dataChan, dataChan')]_vars
    /\ [](Draining => db = "open" /\ pinged /\ stmt)
    /\ [](Len(execLog) = Len(rows) + Cardinality(failed) + Ind(wpc = "exec"))

\* records wait in the channel while the worker sleeps in Backoff
C18_Witness ==
    /\ Backoff
    /\ Len(dataChan) = Cap
    /\ execLog = <<>>

\* C19: in Backoff the connector is disconnected: the handle of the failed
\* attempt and any statement are closed; a handle is opened only when none
\* is open, so at most one exists; no step of ServeHTTP changes the
\* connector.
C19_ConnectorLifecycle ==
    /\ [](Backoff => db # "open" /\ ~stmt /\ ~pinged /\ handles = 0)
    /\ [](handles <= 1 /\ handles = Ind(db = "open"))
    /\ [](stmt => db = "open")
    /\ [][handles' > handles => handles = 0 /\ wpc = "open"]_vars
    /\ [][\A p \in Req : pc'[p] # pc[p] =>
            UNCHANGED <<db, stmt, pinged, handles>>]_vars

\* the worker sleeps after an attempt whose handle was opened and then closed
C19_Witness ==
    /\ Backoff
    /\ db = "closed"
    /\ handles = 0
    /\ attempts >= 1
====
